---- MODULE Spec2Model ----
(***************************************************************************)
(* A model of the cost-bound propagation and search engine of uclasm:      *)
(* MatchingProblem (matching/matching_problem.py), the edgewise local cost *)
(* bound (matching/local_cost_bound/edgewise.py) and the drivers           *)
(* run_filters and count_isomorphisms (interface.py).                      *)
(*                                                                         *)
(* Graphs are multi-channel adjacency matrices ch_to_adj[channel][i][j]    *)
(* holding edge multiplicities.  Cost arrays are n x m matrices of natural *)
(* numbers or Inf.  A MatchingProblem is a record `smp`; every function of *)
(* the source that mutates the problem is an operator from smp to smp.     *)
(* An operator for a function that can raise returns a record with the     *)
(* fields raised and error beside its value.  The attributes edge_attr_fn  *)
(* and missing_edge_cost_fn, which MatchingProblem.__init__ does not set,  *)
(* are fields smp has only once a caller has assigned them.  The cost      *)
(* arrays of a problem are views of buffers: smp.shared gives, for each of *)
(* the three arrays, the arrays that are views of its buffer.              *)
(***************************************************************************)
EXTENDS Integers, Sequences, FiniteSets, TLC

VARIABLES
    smp,            \* the MatchingProblem under work
    pc,             \* position of the driver program
    args,           \* the arguments the driver was called with
    old_candidates, \* run_filters: snapshot of candidates() taken at line 42
    rounds,         \* run_filters: number of passes through the while loop
    result          \* what the driver returned (solutions, count, candidates)

vars == <<smp, pc, args, old_candidates, rounds, result>>

---------------------------------------------------------------------------
(* Sizes of the problems explored.                                         *)

\* number of template nodes and of world nodes (the fixtures use 3 and 3)
NT == 3
NW == 3
\* number of channels (the fixtures use c1 and c2)
NCh == 2
\* float("inf")
Inf == 1000000

\* bounds on the inputs: the edges of the template and of the world that
\* the drivers are called on, the edges of the template the search is run
\* on, and the largest finite cost written through a setter
MaxTmpltEdges == 3
MaxWorldEdges == 2
MaxTestTmpltEdges == 2
MaxCost == 1

TNodes == 0 .. (NT - 1)
WNodes == 0 .. (NW - 1)
Channels == 1 .. NCh

None == <<>>

---------------------------------------------------------------------------
(* Arithmetic on costs: naturals and Inf, as numpy floats behave.          *)

Max(a, b) == IF a >= b THEN a ELSE b
Min(a, b) == IF a <= b THEN a ELSE b

\* a + b on floats: anything plus inf is inf
Plus(a, b) == IF a = Inf \/ b = Inf THEN Inf ELSE a + b

RECURSIVE SumOver(_, _)
\* sum of f[x] over the finite set S = DOMAIN-subset of f
SumOver(f, S) ==
    IF S = {} THEN 0
    ELSE LET x == CHOOSE y \in S : TRUE
         IN  Plus(f[x], SumOver(f, S \ {x}))

RECURSIVE MaxOver(_, _)
\* maximum of f[x] over the finite non-empty set S (0 for the empty set)
MaxOver(f, S) ==
    IF S = {} THEN 0
    ELSE LET x == CHOOSE y \in S : TRUE
         IN  Max(f[x], MaxOver(f, S \ {x}))

\* np.zeros(shape)
zeros == [i \in TNodes |-> [j \in WNodes |-> 0]]

---------------------------------------------------------------------------
(* Graphs.                                                                 *)

\* an edge list entry: channel, source, target
EdgeSlots(N) == {e \in Channels \X N \X N : e[2] # e[3]}

\* adjacency matrices of an edge list (a sequence of slots, repeats allowed)
AdjOf(N, el) ==
    [c \in Channels |-> [i \in N |-> [j \in N |->
        Cardinality({p \in DOMAIN el : el[p] = <<c, i, j>>})]]]

\* rank of a slot, to list every multiset of edges once
SlotRank(N, e) == (e[1] * Cardinality(N) + e[2]) * Cardinality(N) + e[3]

\* all edge lists of at most K edges over nodes N, each multiset once
EdgeLists(N, K) ==
    UNION {{el \in [1 .. k -> EdgeSlots(N)] :
               \A p \in 1 .. (k - 1) : SlotRank(N, el[p]) <= SlotRank(N, el[p + 1])}
           : k \in 0 .. K}

\* the graph with its nodes renamed by the permutation pi
Relabel(g, pi) ==
    [c \in Channels |-> [i \in DOMAIN pi |-> [j \in DOMAIN pi |-> g[c][pi[i]][pi[j]]]]]

Perms(N) == {pi \in [N -> N] : \A i, j \in N : pi[i] = pi[j] => i = j}

\* g comes no later than h in a fixed total order of the graphs over N
GraphLeq(N, g, h) ==
    LET diff == {e \in EdgeSlots(N) : g[e[1]][e[2]][e[3]] # h[e[1]][e[2]][e[3]]}
    IN  \/ diff = {}
        \/ LET e == CHOOSE x \in diff :
                        \A y \in diff : SlotRank(N, x) <= SlotRank(N, y)
           IN  g[e[1]][e[2]][e[3]] < h[e[1]][e[2]][e[3]]

\* one graph of every isomorphism class of the graphs of at most K edges
\* over nodes N: renaming the nodes of the template or of the world renames
\* the rows or the columns of every matrix of the problem and nothing else
Graphs(N, K) ==
    {g \in {AdjOf(N, el) : el \in EdgeLists(N, K)} :
        \A pi \in Perms(N) : GraphLeq(N, g, Relabel(g, pi))}

TmpltGraphs == Graphs(TNodes, MaxTmpltEdges)
WorldGraphs == Graphs(WNodes, MaxWorldEdges)

\* adj.T
Transpose(adj) == [i \in DOMAIN adj |-> [j \in DOMAIN adj |-> adj[j][i]]]

\* Graph.nbr_idx_pairs: the pairs of neighbouring template nodes, each
\* unordered pair once (lower triangle of the symmetrised composite adjacency)
nbr_idx_pairs(g) ==
    {p \in TNodes \X TNodes :
        /\ p[1] >= p[2]
        /\ \E c \in Channels : g[c][p[1]][p[2]] > 0 \/ g[c][p[2]][p[1]] > 0}

\* Graph.has_loops
has_loops(g) == \E c \in Channels : \E i \in DOMAIN g[c] : g[c][i][i] > 0

\* Graph.self_edges: per channel, the multiplicity of each node's self-loop
self_edges(g) == [c \in Channels |-> [i \in DOMAIN g[c] |-> g[c][i][i]]]

\* Graph.loopless_subgraph
loopless_subgraph(g) ==
    [c \in Channels |-> [i \in DOMAIN g[c] |-> [j \in DOMAIN g[c] |->
        IF i = j THEN 0 ELSE g[c][i][j]]]]

\* feature_disagreements(tmplt.self_edges, world.self_edges): for each pair
\* (template node, world node) the number of template self-loops the world
\* node lacks
feature_disagreements(tl, wl) ==
    [i \in TNodes |-> [j \in WNodes |->
        SumOver([c \in Channels |-> Max(tl[c][i] - wl[c][j], 0)], Channels)]]

---------------------------------------------------------------------------
(* MatchingProblem.                                                        *)

\* elementwise a + b of two cost arrays
ArrayPlus(a, b) == [i \in TNodes |-> [j \in WNodes |-> Plus(a[i][j], b[i][j])]]

\* local_costs / 2 (in the model only ever applied to whole numbers of pairs)
ArrayHalf(a) ==
    [i \in TNodes |-> [j \in WNodes |-> IF a[i][j] = Inf THEN Inf ELSE a[i][j] \div 2]]

\* an array that takes whatever is assigned to it
MonotoneSetItem_plain(arr, value) == value

\* MonotoneArray.__setitem__: arr[:] = value keeps the larger of the old and
\* the new value of every entry
MonotoneSetItem(arr, value) ==
    [i \in TNodes |-> [j \in WNodes |-> Max(arr[i][j], value[i][j])]]

\* the names of the three cost arrays
CostNames == {"fixed_costs", "local_costs", "global_costs"}

\* the cost array of the given name
CostArray(p, name) ==
    CASE name = "fixed_costs" -> p.fixed_costs
      [] name = "local_costs" -> p.local_costs
      [] name = "global_costs" -> p.global_costs

\* three arrays that are views of three buffers (lines 107-109, of three
\* arrays that are three objects)
own_buffers == [name \in CostNames |-> {name}]

\* MatchingProblem.__init__ with the given graphs, fixed costs (None: zeros)
\* and global cost threshold; local and global costs default to zeros and
\* the local cost threshold to 0.  Both graphs of the model carry the same
\* channels in the same order, so the channel reconciliation is the identity.
MatchingProblem(tmplt, world, fixed_costs, global_cost_threshold) ==
    LET fc0 == IF fixed_costs = None THEN zeros ELSE fixed_costs
        loops == has_loops(tmplt)
        fc1 == IF loops
               THEN ArrayPlus(fc0, feature_disagreements(self_edges(tmplt),
                                                         self_edges(world)))
               ELSE fc0
    IN  [tmplt |-> IF loops THEN loopless_subgraph(tmplt) ELSE tmplt,
         world |-> IF loops THEN loopless_subgraph(world) ELSE world,
         fixed_costs |-> fc1,
         local_costs |-> zeros,
         global_costs |-> zeros,
         shared |-> own_buffers,
         local_cost_threshold |-> 0,
         global_cost_threshold |-> global_cost_threshold]

\* self._x[:] = value: the write into the buffer of the array of the given
\* name, which every array that is a view of that buffer shows
written(p, name, new) ==
    [p EXCEPT !.fixed_costs = IF "fixed_costs" \in p.shared[name] THEN new ELSE @,
              !.local_costs = IF "local_costs" \in p.shared[name] THEN new ELSE @,
              !.global_costs = IF "global_costs" \in p.shared[name] THEN new ELSE @]

\* the fixed_costs property setter
fixed_costs_setter(p, value) ==
    written(p, "fixed_costs", MonotoneSetItem(p.fixed_costs, value))

\* a local_costs setter that stores whatever is assigned
local_costs_setter_plain(p, value) == written(p, "local_costs", value)

\* the local_costs property setter
local_costs_setter(p, value) ==
    written(p, "local_costs", MonotoneSetItem(p.local_costs, value))

\* the global_costs property setter
global_costs_setter(p, value) ==
    written(p, "global_costs", MonotoneSetItem(p.global_costs, value))

\* an ndarray passed by a caller: the object it is and its entries.  The
\* object is named by its id: the name of a cost array stands for the array
\* that this cost array of the problem is a view of when the call is made
\* (the problem's own array, or the array of an earlier call), any other
\* id for an array that is new to the problem
ndarray(id, data) == [id |-> id, data |-> data]

\* the cost arrays of the problem that are views of the array of this id
views_of(p, id) == IF id \in CostNames THEN p.shared[id] ELSE {}

\* two ids name one array
same_array(p, x, y) == x = y \/ y \in views_of(p, x)

\* MatchingProblem.set_costs: each argument given (an ndarray, not None)
\* replaces the array of the problem by a view of the array given
\* (x.view(MonotoneArray), lines 145-152), whatever the entries of the
\* problem's array were; the monotone setters are not used.  A view shares
\* the buffer of the array given: with the other arguments that are this
\* array, and with the arrays of the problem that are views of it already
\* and are not replaced.  An array that is not given stays a view of its
\* buffer, which the replaced arrays have left
set_costs(p, fixed_costs, local_costs, global_costs) ==
    LET arg == [name \in CostNames |->
                   CASE name = "fixed_costs" -> fixed_costs
                     [] name = "local_costs" -> local_costs
                     [] name = "global_costs" -> global_costs]
        given == {name \in CostNames : arg[name] # None}
        view(name) == IF name \in given THEN arg[name].data
                      ELSE CostArray(p, name)
    IN  [p EXCEPT !.fixed_costs = view("fixed_costs"),
                  !.local_costs = view("local_costs"),
                  !.global_costs = view("global_costs"),
                  !.shared = [name \in CostNames |->
                     IF name \in given
                     THEN {m \in given : same_array(p, arg[m].id, arg[name].id)}
                          \cup (views_of(p, arg[name].id) \ given)
                     ELSE (p.shared[name] \ given)
                          \cup {m \in given : name \in views_of(p, arg[m].id)}]]

\* candidates() with a strict comparison
candidates_strict(p) ==
    [i \in TNodes |-> [j \in WNodes |->
        p.global_costs[i][j] < p.global_cost_threshold]]

\* MatchingProblem.candidates
candidates(p) ==
    [i \in TNodes |-> [j \in WNodes |->
        p.global_costs[i][j] <= p.global_cost_threshold]]

---------------------------------------------------------------------------
(* The edgewise local cost bound.                                          *)

\* iter_adj_pairs with the second pair of a channel transposing the template
\* matrix alone
iter_adj_pairs_one_transpose(tmplt, world) ==
    [x \in Channels \X BOOLEAN |->
        IF x[2] THEN <<Transpose(tmplt[x[1]]), world[x[1]]>>
                ELSE <<tmplt[x[1]], world[x[1]]>>]

\* iter_adj_pairs: for every channel the pair (tmplt_adj, world_adj) and
\* the pair of their transposes; indexed by (channel, transposed)
iter_adj_pairs(tmplt, world) ==
    [x \in Channels \X BOOLEAN |->
        IF x[2] THEN <<Transpose(tmplt[x[1]]), Transpose(world[x[1]])>>
                ELSE <<tmplt[x[1]], world[x[1]]>>]

\* the pairs evaluated when a pair is skipped unless both of its nodes have
\* changed
evaluated_pairs_both_changed(p, cands, changed_cands) ==
    {e \in nbr_idx_pairs(p.tmplt) :
        /\ changed_cands = None \/ (changed_cands[e[1]] /\ changed_cands[e[2]])
        /\ \E j \in WNodes : cands[e[1]][j]
        /\ \E j \in WNodes : cands[e[2]][j]}

\* the pairs of nbr_idx_pairs whose body runs to the end: not skipped for an
\* unchanged pair (lines 53-57) nor for an endpoint without candidates
\* (lines 62-64)
evaluated_pairs(p, cands, changed_cands) ==
    {e \in nbr_idx_pairs(p.tmplt) :
        /\ changed_cands = None \/ changed_cands[e[1]] \/ changed_cands[e[2]]
        /\ \E j \in WNodes : cands[e[1]][j]
        /\ \E j \in WNodes : cands[e[2]][j]}

\* lines 59-109 for one pair (src_idx, dst_idx): the least cost of each
\* candidate of src and of each candidate of dst
pair_least_costs(p, cands, src_idx, dst_idx) ==
    LET src_is_cand == {j \in WNodes : cands[src_idx][j]}
        dst_is_cand == {j \in WNodes : cands[dst_idx][j]}
        adj == iter_adj_pairs(p.tmplt, p.world)
        tmplt_adj_val == [x \in DOMAIN adj |-> adj[x][1][src_idx][dst_idx]]
        total_tmplt_edges == SumOver(tmplt_adj_val, DOMAIN adj)
        used == {x \in DOMAIN adj : tmplt_adj_val[x] # 0}
        supported_edges ==
            [a \in src_is_cand |-> [b \in dst_is_cand |->
                SumOver([x \in used |-> Min(adj[x][2][a][b], tmplt_adj_val[x])],
                        used)]]
    IN  [src |-> [a \in src_is_cand |->
                    total_tmplt_edges
                    - MaxOver(supported_edges[a], dst_is_cand)],
         dst |-> [b \in dst_is_cand |->
                    total_tmplt_edges
                    - MaxOver([a \in src_is_cand |-> supported_edges[a][b]],
                              src_is_cand)]]

\* the pairs of nbr_idx_pairs that lines 53-57 do not skip
required_pairs(p, changed_cands) ==
    {e \in nbr_idx_pairs(p.tmplt) :
        changed_cands = None \/ changed_cands[e[1]] \/ changed_cands[e[2]]}

\* the test of line 62: an endpoint of the pair has no candidate
no_candidates(cands, e) ==
    \/ \A j \in WNodes : ~cands[e[1]][j]
    \/ \A j \in WNodes : ~cands[e[2]][j]

\* lines 48-49 and 52-109: the array built when smp.edge_attr_fn is None, by
\* counting the template edges between the nodes of a pair that the world
\* lacks between their candidates
edge_disagreements(p, changed_cands) ==
    LET cands == candidates(p)
        pairs == evaluated_pairs(p, cands, changed_cands)
        least == [e \in pairs |-> pair_least_costs(p, cands, e[1], e[2])]
    IN  [i \in TNodes |-> [j \in WNodes |->
            SumOver([e \in pairs |->
                        (IF e[1] = i /\ cands[i][j] THEN least[e].src[j] ELSE 0)
                        + (IF e[2] = i /\ e[1] # e[2] /\ cands[i][j]
                           THEN least[e].dst[j] ELSE 0)],
                    pairs)]]

\* the rows of the template edgelist (channel, source, target) that the
\* loop of lines 120-172 does not skip as unchanged (lines 128-132)
attr_edges_evaluated(p, changed_cands) ==
    {e \in Channels \X TNodes \X TNodes :
        /\ p.tmplt[e[1]][e[2]][e[3]] > 0
        /\ changed_cands = None \/ changed_cands[e[2]] \/ changed_cands[e[3]]}

\* lines 110-174, taken when smp.edge_attr_fn is a function: whether the
\* call raised, with which error, and the array returned.  In the first
\* pass of the loop that is not skipped, line 136 reads
\* smp.missing_edge_cost_fn (AttributeError on a problem without it) and
\* line 155 reads cand_edge_dst_mask, a local name that is bound only at
\* line 156 (UnboundLocalError); the array is returned only when no template
\* edge is evaluated, and it is then the zeros of line 48
edgewise_local_costs_attr(p, changed_cands) ==
    IF attr_edges_evaluated(p, changed_cands) = {}
    THEN [raised |-> FALSE, error |-> "", new_local_costs |-> zeros]
    ELSE IF "missing_edge_cost_fn" \notin DOMAIN p
    THEN [raised |-> TRUE, error |-> "AttributeError", new_local_costs |-> None]
    ELSE [raised |-> TRUE, error |-> "UnboundLocalError", new_local_costs |-> None]

\* edgewise_local_costs: whether the call raised, with which error, and the
\* array returned.  Line 51 reads smp.edge_attr_fn; MatchingProblem.__init__
\* sets no such attribute, so on a problem that has not been given one
\* after its construction the read raises AttributeError
edgewise_local_costs(p, changed_cands) ==
    IF "edge_attr_fn" \notin DOMAIN p
    THEN [raised |-> TRUE, error |-> "AttributeError", new_local_costs |-> None]
    ELSE IF p.edge_attr_fn # None
    THEN edgewise_local_costs_attr(p, changed_cands)
    ELSE [raised |-> FALSE, error |-> "",
          new_local_costs |-> edge_disagreements(p, changed_cands)]

\* edgewise: whether the call raised, with which error, and the problem it
\* leaves; the local costs are assigned (line 184) only when
\* edgewise_local_costs has returned
edgewise(p, changed_cands) ==
    LET assign(r) ==
            IF r.raised
            THEN [raised |-> TRUE, error |-> r.error, smp |-> p]
            ELSE [raised |-> FALSE, error |-> "",
                  smp |-> local_costs_setter(p, r.new_local_costs)]
    IN  assign(edgewise_local_costs(p, changed_cands))

\* local_cost_bound.nodewise without a node attribute function: the bound
\* is all zero
nodewise(p) == local_costs_setter(p, zeros)

\* cost_bounds.nodewise_cost_bound of the tests: the nodewise bound
nodewise_cost_bound(p) == nodewise(p)

\* cost_bounds.edgewise_cost_bound of the tests, which call it on a problem
\* all of whose pairs are candidates: the local costs are raised to the
\* number of template edges between a node and each of its neighbours that
\* no candidate of the neighbour supports
edgewise_cost_bound(p) == local_costs_setter(p, edge_disagreements(p, None))

\* global_cost_bound.from_local_bounds: the global bound is the elementwise
\* sum of the fixed and the local costs
from_local_bounds(p) ==
    global_costs_setter(p, ArrayPlus(p.fixed_costs, p.local_costs))

---------------------------------------------------------------------------
(* interface.run_filters.                                                  *)

\* lines 31-32: fixed costs that are infinite outside the given candidates
fixed_costs_of(cands) ==
    [i \in TNodes |-> [j \in WNodes |-> IF cands[i][j] THEN 0 ELSE Inf]]

\* lines 28-40: the problem as it enters the while loop
run_filters_setup(tmplt, world, cands) ==
    LET p0 == IF cands = None
              THEN MatchingProblem(tmplt, world, None, 0)
              ELSE MatchingProblem(tmplt, world, fixed_costs_of(cands), 0)
        p1 == global_costs_setter(p0, ArrayPlus(ArrayHalf(p0.local_costs),
                                                p0.fixed_costs))
    IN  from_local_bounds(nodewise(p1))

\* lines 46-47: one round of edgewise bound and global bound; an error
\* raised at line 46 leaves the loop and the function
filter_round(p) ==
    LET bound(e) ==
            IF e.raised
            THEN e
            ELSE [raised |-> FALSE, error |-> "",
                  smp |-> from_local_bounds(e.smp)]
    IN  bound(edgewise(p, None))

\* lines 48-50: whether the loop goes round again
loop_continues(old, p) == candidates(p) # old

\* the candidate matrices run_filters is called with, besides None: all
\* pairs but one
InitCandidates ==
    {[i \in TNodes |-> [j \in WNodes |-> <<i, j>> # <<x, x>>]] :
        x \in TNodes \cap WNodes}

\* lines 41-50 run to the end: whether a round raised, and the problem when
\* the while loop is left
RECURSIVE filter_loop(_)
filter_loop(p) ==
    LET again(q) ==
            IF q.raised THEN q
            ELSE IF loop_continues(candidates(p), q.smp) THEN filter_loop(q.smp)
            ELSE q
    IN  again(filter_round(p))

\* run_filters: whether it raised, and the candidate matrix it returns
run_filters(tmplt, world, cands) ==
    LET return(q) ==
            IF q.raised
            THEN [raised |-> TRUE, error |-> q.error, candidates |-> None]
            ELSE [raised |-> FALSE, error |-> "",
                  candidates |-> candidates(q.smp)]
    IN  return(filter_loop(run_filters_setup(tmplt, world, cands)))

---------------------------------------------------------------------------
(* The best-k search (matching.search.greedy_best_k_matching).             *)

\* the complete injective assignments of template nodes to world nodes
Assignments == {A \in [TNodes -> WNodes] : \A i, j \in TNodes : A[i] = A[j] => i = j}

\* the number of template edges without a corresponding world edge under A
missing_edges(tmplt, world, A) ==
    LET slots == {e \in Channels \X TNodes \X TNodes : tmplt[e[1]][e[2]][e[3]] > 0}
    IN  SumOver([e \in slots |->
                    Max(tmplt[e[1]][e[2]][e[3]] - world[e[1]][A[e[2]]][A[e[3]]], 0)],
                slots)

\* the total cost of a complete assignment under full verification against
\* the graphs: its fixed costs plus its missing edges
total_cost(p, A) ==
    Plus(SumOver([i \in TNodes |-> p.fixed_costs[i][A[i]]], TNodes),
         missing_edges(p.tmplt, p.world, A))

\* a search that returns every assignment
matches_unfiltered(p) == Assignments

\* the assignments the search may return: they respect candidates() and
\* their total cost does not exceed the global cost threshold
matches(p) ==
    LET cands == candidates(p)
    IN  {A \in Assignments :
            /\ \A i \in TNodes : cands[i][A[i]]
            /\ total_cost(p, A) <= p.global_cost_threshold}

\* A comes before B in the order of world node indices in template node order
LexLess(A, B) ==
    \E i \in TNodes : A[i] < B[i] /\ \A h \in TNodes : h < i => A[h] = B[h]

\* the solution records of the assignments S
solution_records(p, S) == {[matching |-> A, cost |-> total_cost(p, A)] : A \in S}

\* the orders a search may break ties in: the search is to break them in
\* a deterministic order, which is not laid down; the lexicographic order
\* of the mappings, ascending or descending, is taken
TieOrders == {"ascending", "descending"}

\* x comes before y: it costs less, or as much and is first in the order of
\* the ties
comes_before(x, y, order) ==
    \/ x.cost < y.cost
    \/ /\ x.cost = y.cost
       /\ IF order = "ascending" THEN LexLess(x.matching, y.matching)
          ELSE LexLess(y.matching, x.matching)

\* the solutions in lexicographic order, whatever they cost
ranked_lexicographic(sols, order) ==
    [n \in 1 .. Cardinality(sols) |->
        CHOOSE x \in sols :
            Cardinality({y \in sols : LexLess(y.matching, x.matching)}) = n - 1]

\* the solutions by ascending total cost, ties in the given order
ranked(sols, order) ==
    [n \in 1 .. Cardinality(sols) |->
        CHOOSE x \in sols :
            Cardinality({y \in sols : comes_before(y, x, order)}) = n - 1]

\* greedy_best_k_matching(smp, k) of a search that breaks ties in the given
\* order: the k best matches, all of them for k = -1
greedy_best_k_matching(p, k, order) ==
    LET all == ranked(solution_records(p, matches(p)), order)
    IN  IF k = -1 \/ k >= Len(all) THEN all ELSE SubSeq(all, 1, k)

---------------------------------------------------------------------------
(* interface.count_isomorphisms.                                           *)

\* lines 72-81: whether the edgewise bound of line 76 raised, and the number
\* of matches found within the given candidates
count_within(tmplt, world, cands) ==
    LET p0 == MatchingProblem(tmplt, world, fixed_costs_of(cands), 0)
        search(e) ==
            IF e.raised
            THEN [raised |-> TRUE, error |-> e.error, count |-> None]
            ELSE [raised |-> FALSE, error |-> "",
                  count |-> Len(greedy_best_k_matching(
                                    from_local_bounds(e.smp), -1,
                                    "ascending"))]
    IN  search(edgewise(nodewise(p0), None))

\* count_isomorphisms: whether it raised, and the number it returns
count_isomorphisms(tmplt, world, cands) ==
    IF cands # None
    THEN count_within(tmplt, world, cands)
    ELSE LET count(f) ==
                 IF f.raised
                 THEN [raised |-> TRUE, error |-> f.error, count |-> None]
                 ELSE count_within(tmplt, world, f.candidates)
         IN  count(run_filters(tmplt, world, None))

---------------------------------------------------------------------------
(* The drivers of interface.py, called on every pair of graphs.            *)

Init ==
    /\ pc = "start"
    /\ args \in [tmplt : TmpltGraphs, world : WorldGraphs,
                 candidates : {None} \cup InitCandidates]
    /\ smp = None
    /\ old_candidates = None
    /\ rounds = 0
    /\ result = None

\* run_filters, lines 28-40
RunFiltersSetup ==
    /\ pc = "start"
    /\ smp' = run_filters_setup(args.tmplt, args.world, args.candidates)
    /\ pc' = "loop"
    /\ UNCHANGED <<args, old_candidates, rounds, result>>

\* run_filters, one pass through the while loop (lines 42-50): it ends with
\* the error raised at line 46, or goes round again, or leaves the loop and
\* returns (line 53)
FilterRound ==
    /\ pc = "loop"
    /\ old_candidates' = candidates(smp)
    /\ rounds' = rounds + 1
    /\ LET q == filter_round(smp)
       IN  /\ smp' = q.smp
           /\ IF q.raised
              THEN /\ pc' = "raised"
                   /\ result' = [raised |-> TRUE, error |-> q.error,
                                 candidates |-> None]
              ELSE IF loop_continues(old_candidates', q.smp)
              THEN pc' = "loop" /\ result' = result
              ELSE /\ pc' = "filtered"
                   /\ result' = [raised |-> FALSE, error |-> "",
                                 candidates |-> candidates(q.smp)]
    /\ UNCHANGED args

\* count_isomorphisms with candidates: lines 72-81
CountGiven ==
    /\ pc = "start"
    /\ args.candidates # None
    /\ result' = count_within(args.tmplt, args.world, args.candidates)
    /\ pc' = "counted"
    /\ UNCHANGED <<smp, args, old_candidates, rounds>>

Next == RunFiltersSetup \/ FilterRound \/ CountGiven

Spec == Init /\ [][Next]_vars

---------------------------------------------------------------------------
(* Properties of run_filters, checked under Spec.                          *)

\* the while loop of run_filters has been left, by line 50 or by an error
LoopLeft == pc \in {"filtered", "raised"}

\* C3: the filtering loop ends, after at most n*m rounds: it is left at
\* line 50, and no round starts once n*m rounds have run
C3_RoundsBounded ==
    /\ pc # "raised"
    /\ rounds <= NT * NW
    /\ pc = "loop" => rounds < NT * NW

\* C5: when the loop has stopped, run_filters returns the candidate matrix,
\* and one more round of edgewise bound and global bound leaves that matrix
\* unchanged
C5_FixedPoint ==
    LoopLeft =>
        /\ ~result.raised
        /\ result.candidates = candidates(smp)
        /\ LET q == filter_round(smp)
           IN  ~q.raised /\ candidates(q.smp) = result.candidates

\* the matches run_filters is to keep: the complete injective assignments
\* that miss no template edge and that use pairs of the given candidates only
MatchesToKeep ==
    {A \in Assignments :
        /\ missing_edges(args.tmplt, args.world, A) <= 0
        /\ args.candidates # None => \A i \in TNodes : args.candidates[i][A[i]]}

\* C18: run_filters returns a candidate matrix in which every pair of a
\* match (a complete injective assignment within the global cost threshold,
\* made of initial candidates when a candidate matrix is given) is true, and
\* in which every pair that is false in the matrix given is false
C18_NoMatchEliminated ==
    LoopLeft =>
        /\ ~result.raised
        /\ \A A \in MatchesToKeep : \A i \in TNodes : result.candidates[i][A[i]]
        /\ args.candidates # None =>
              \A i \in TNodes : \A j \in WNodes :
                  ~args.candidates[i][j] => ~result.candidates[i][j]

---------------------------------------------------------------------------
(* The cost arrays of a MatchingProblem written through the property       *)
(* setters and replaced by set_costs, in any order.                        *)

\* the thresholds of the problems: 0 (the default), 1 and infinity
Thresholds == {0, 1, Inf}

\* the values of a cost
Costs == (0 .. MaxCost) \cup {Inf}

\* the arrays written: any cost at one entry, zero or infinity at another,
\* zero elsewhere
SetterValues ==
    {[i \in TNodes |-> [j \in WNodes |->
        IF <<i, j>> = <<0, 0>> THEN a ELSE IF <<i, j>> = <<1, 2>> THEN b ELSE 0]] :
     a \in Costs, b \in {0, Inf}}

\* the graph without edges
EmptyGraph(N) == AdjOf(N, <<>>)

SetterInit ==
    /\ pc = "setters"
    /\ \E h \in Thresholds :
          smp = MatchingProblem(EmptyGraph(TNodes), EmptyGraph(WNodes), None, h)
    /\ args = None
    /\ old_candidates = None
    /\ rounds = 0
    /\ result = None

\* smp.fixed_costs = value
SetFixedCosts ==
    /\ pc = "setters"
    /\ \E v \in SetterValues :
          /\ smp' = fixed_costs_setter(smp, v)
          /\ args' = [array |-> "fixed_costs", value |-> v]
    /\ UNCHANGED <<pc, old_candidates, rounds, result>>

\* smp.local_costs = value
SetLocalCosts ==
    /\ pc = "setters"
    /\ \E v \in SetterValues :
          /\ smp' = local_costs_setter(smp, v)
          /\ args' = [array |-> "local_costs", value |-> v]
    /\ UNCHANGED <<pc, old_candidates, rounds, result>>

\* smp.global_costs = value
SetGlobalCosts ==
    /\ pc = "setters"
    /\ \E v \in SetterValues :
          /\ smp' = global_costs_setter(smp, v)
          /\ args' = [array |-> "global_costs", value |-> v]
    /\ UNCHANGED <<pc, old_candidates, rounds, result>>

\* the entries of the new arrays passed to set_costs: all zero, or those
\* of SetterValues with the greatest finite cost and an infinite one
ForcedValues ==
    {v \in SetterValues :
        <<v[0][0], v[1][2]>> \in {<<0, 0>>, <<MaxCost, Inf>>}}

\* smp.set_costs(fixed_costs=..., local_costs=..., global_costs=...) with
\* None for the arguments not given.  Of those given, the arguments held
\* are passed an array that the problem has a view of already, the one that
\* its cost array src is a view of, with the entries that array has; the
\* others are passed arrays new to the problem, of the same entries: one
\* array for all of them, or an array for each (next to an array held, one
\* array of zeros)
SetCosts ==
    /\ pc = "setters"
    /\ \E given \in (SUBSET CostNames) \ {{}} : \E held \in SUBSET given :
       \E src \in {n \in CostNames : held # {} \/ n = "fixed_costs"} :
       \E v \in {w \in ForcedValues : held = {} \/ w = zeros} :
       \E one \in {b \in BOOLEAN : b \/ (held = {} /\ Cardinality(given) > 1)} :
          LET new(name) == IF one THEN "a"
                           ELSE CASE name = "fixed_costs" -> "a"
                                  [] name = "local_costs" -> "b"
                                  [] name = "global_costs" -> "c"
              arg(name) ==
                  IF name \notin given THEN None
                  ELSE IF name \in held
                  THEN ndarray(src, CostArray(smp, src))
                  ELSE ndarray(new(name), v)
          IN  /\ smp' = set_costs(smp, arg("fixed_costs"), arg("local_costs"),
                                  arg("global_costs"))
              /\ args' = [array |-> "set_costs",
                          fixed_costs |-> arg("fixed_costs"),
                          local_costs |-> arg("local_costs"),
                          global_costs |-> arg("global_costs")]
    /\ UNCHANGED <<pc, old_candidates, rounds, result>>

SetterNext == SetFixedCosts \/ SetLocalCosts \/ SetGlobalCosts \/ SetCosts

SetterSpec == SetterInit /\ [][SetterNext]_vars

\* C1: under every sequence of assignments through the three setters every
\* entry of every cost array is non-decreasing: an assignment of a smaller
\* value leaves the entry of the array assigned to as it is, one of a larger
\* value sets it, and an infinite entry stays infinite (every step that is
\* an assignment through a setter, from whatever arrays the problem has by
\* then; an array that is a view of the buffer of the array assigned to
\* changes as that array does, and the other arrays keep their entries)
C1_SettersMonotone ==
    [][pc = "setters" /\ args'.array \in CostNames =>
        \A name \in CostNames :
            \A i \in TNodes : \A j \in WNodes :
                LET old == CostArray(smp, name)[i][j]
                    new == CostArray(smp', name)[i][j]
                    val == args'.value[i][j]
                    same == name \in smp.shared[args'.array]
                IN  /\ new >= old
                    /\ old = Inf => new = Inf
                    /\ ~same => new = old
                    /\ same /\ val < old => new = old
                    /\ same /\ val >= old => new = val]_vars

\* a smaller value has just been assigned to an entry, which kept its value,
\* and an infinite one has been assigned a finite value, in an array that
\* set_costs had made a view of the buffer of another array
C1_Witness ==
    /\ pc = "setters"
    /\ args # None
    /\ args.array \in CostNames
    /\ smp.shared[args.array] # {args.array}
    /\ \A name \in smp.shared[args.array] :
          CostArray(smp, name) = CostArray(smp, args.array)
    /\ args.value[0][0] < CostArray(smp, args.array)[0][0]
    /\ CostArray(smp, args.array)[1][2] = Inf
    /\ args.value[1][2] < Inf

\* C6: candidates() is an n x m boolean matrix whose entry (i, j) is true
\* exactly when global_costs[i][j] <= global_cost_threshold, where nothing
\* exceeds an infinite threshold and an infinite cost exceeds every finite
\* threshold
C6_CandidatesIffWithinThreshold ==
    pc = "setters" =>
        LET c == candidates(smp)
        IN  /\ DOMAIN c = TNodes
            /\ \A i \in TNodes :
                /\ DOMAIN c[i] = WNodes
                /\ \A j \in WNodes :
                    /\ c[i][j] \in BOOLEAN
                    /\ c[i][j] <=>
                        IF smp.global_cost_threshold = Inf THEN TRUE
                        ELSE IF smp.global_costs[i][j] = Inf THEN FALSE
                        ELSE smp.global_costs[i][j] <= smp.global_cost_threshold

\* a finite positive threshold, an entry of that very cost and an infinite
\* entry
C6_Witness ==
    /\ pc = "setters"
    /\ smp.global_cost_threshold = 1
    /\ smp.global_costs[0][0] = 1
    /\ smp.global_costs[1][2] = Inf
    /\ candidates(smp)[0][0]
    /\ ~candidates(smp)[1][2]

---------------------------------------------------------------------------
(* The search run as tests/test_search.py runs it: a problem is built with *)
(* a threshold, the nodewise and the edgewise bound of cost_bounds are     *)
(* applied, and the best k matches are asked for; before the search the    *)
(* global bound may be applied.                                            *)

\* the template of the fixtures: b -> a on c1, c -> b on c2
FixtureTmplt == AdjOf(TNodes, <<<<1, 1, 0>>, <<2, 2, 1>>>>)

\* the world of the noisy fixture: b -> a on c1
FixtureNoisyWorld == AdjOf(WNodes, <<<<1, 1, 0>>>>)

\* the graphs that have one edge of t less
OneEdgeLess(t) ==
    {[t EXCEPT ![e[1]][e[2]][e[3]] = @ - 1] :
        e \in {x \in EdgeSlots(TNodes) : t[x[1]][x[2]][x[3]] > 0}}

TestTmplts == Graphs(TNodes, MaxTestTmpltEdges) \cup {FixtureTmplt}

\* the worlds a template is searched in: every world, the template itself
\* and the template with one edge missing
TestWorlds(t) == WorldGraphs \cup {t} \cup OneEdgeLess(t)

\* the numbers of matches asked for: all, the default, and 5 and 6
Ks == {-1, 1, 5, 6}

TestInit ==
    /\ pc = "fixture"
    /\ \E t \in TestTmplts : \E w \in TestWorlds(t) :
          args = [tmplt |-> t, world |-> w]
    /\ smp = None
    /\ old_candidates = None
    /\ rounds = 0
    /\ result = None

\* smp = MatchingProblem(tmplt, world, global_cost_threshold=...)
TestConstruct ==
    /\ pc = "fixture"
    /\ \E h \in Thresholds :
          smp' = MatchingProblem(args.tmplt, args.world, None, h)
    /\ pc' = "constructed"
    /\ UNCHANGED <<args, old_candidates, rounds, result>>

\* nodewise_cost_bound(smp)
NodewiseBound ==
    /\ pc = "constructed"
    /\ smp' = nodewise_cost_bound(smp)
    /\ pc' = "nodewise"
    /\ UNCHANGED <<args, old_candidates, rounds, result>>

\* edgewise_cost_bound(smp)
EdgewiseBound ==
    /\ pc = "nodewise"
    /\ smp' = edgewise_cost_bound(smp)
    /\ pc' = "bounded"
    /\ UNCHANGED <<args, old_candidates, rounds, result>>

\* the global bound
GlobalBound ==
    /\ pc = "bounded"
    /\ smp' = from_local_bounds(smp)
    /\ UNCHANGED <<pc, args, old_candidates, rounds, result>>

\* solutions = greedy_best_k_matching(smp, k)
Search ==
    /\ pc = "bounded"
    /\ \E k \in Ks : \E order \in TieOrders :
          result' = [k |-> k, order |-> order,
                     solutions |-> greedy_best_k_matching(smp, k, order)]
    /\ pc' = "searched"
    /\ UNCHANGED <<smp, args, old_candidates, rounds>>

\* n = count_isomorphisms(tmplt, world)
CountIsomorphisms ==
    /\ pc = "fixture"
    /\ result' = count_isomorphisms(args.tmplt, args.world, None)
    /\ pc' = "counted"
    /\ UNCHANGED <<smp, args, old_candidates, rounds>>

TestNext ==
    \/ TestConstruct
    \/ NodewiseBound
    \/ EdgewiseBound
    \/ GlobalBound
    \/ Search
    \/ CountIsomorphisms

TestSpec == TestInit /\ [][TestNext]_vars

\* the complete injective assignments whose total cost does not exceed the
\* global cost threshold
WithinThreshold(p) ==
    {A \in Assignments : total_cost(p, A) <= p.global_cost_threshold}

\* the identity mapping
Identity == [i \in TNodes |-> i]

\* C7: the solutions returned are sorted by non-decreasing total cost, none
\* maps two template nodes to the same world node, and every template node
\* is in every solution's mapping
C7_SortedInjectiveComplete ==
    pc = "searched" =>
        LET sol == result.solutions
        IN  /\ \A x \in 1 .. (Len(sol) - 1) : sol[x].cost <= sol[x + 1].cost
            /\ \A x \in 1 .. Len(sol) :
                /\ DOMAIN sol[x].matching = TNodes
                /\ \A i, j \in TNodes :
                      i # j => sol[x].matching[i] # sol[x].matching[j]

\* several solutions of different costs have been returned
C7_Witness ==
    /\ pc = "searched"
    /\ Len(result.solutions) >= 3
    /\ result.solutions[1].cost < result.solutions[Len(result.solutions)].cost

\* the assignments that miss no template edge
Isomorphisms(tmplt, world) ==
    {A \in Assignments : missing_edges(tmplt, world, A) = 0}

\* C8: the search returns min(k, N) solutions, N being the number of
\* complete injective assignments whose total cost does not exceed the
\* global cost threshold; it returns all N of them for k = -1, and
\* count_isomorphisms returns the number of assignments of cost 0
C8_CountIsMinOfKAndN ==
    /\ pc = "searched" =>
          LET N == Cardinality(WithinThreshold(smp))
          IN  /\ Len(result.solutions) =
                     IF result.k = -1 THEN N ELSE Min(result.k, N)
              /\ result.k = -1 =>
                     {result.solutions[x].matching :
                         x \in 1 .. Len(result.solutions)} = WithinThreshold(smp)
    /\ pc = "counted" =>
          /\ ~result.raised
          /\ result.count = Cardinality(Isomorphisms(args.tmplt, args.world))

EmptyCandidateRow(p) ==
    \E i \in TNodes : \A j \in WNodes : ~candidates(p)[i][j]

\* C10: when a template node has an empty candidate row, the search returns
\* the empty sequence of solutions whatever k is
C10_EmptyRowEmptyResult ==
    pc = "searched" /\ EmptyCandidateRow(smp) => result.solutions = <<>>

\* six solutions were asked for while a template node had no candidate
C10_Witness ==
    /\ pc = "searched"
    /\ EmptyCandidateRow(smp)
    /\ result.k = 6
    /\ result.solutions = <<>>

---------------------------------------------------------------------------
(* Calls of the edgewise bound by a caller that has built a problem whose   *)
(* fixed costs enforce the given candidates: on the problem as built, or    *)
(* after the caller has assigned it an edge_attr_fn; without changed_cands  *)
(* or with a changed_cands vector; each call that returns may be followed   *)
(* by the global bound and by another call.                                 *)

\* the cost of a template edge that the world lacks, and the cost of a
\* world edge standing for a template edge: 0 on the same channel, else 1
MissingEdgeCost == 2
AttrCost(tmplt_channel, world_channel) ==
    IF tmplt_channel = world_channel THEN 0 ELSE 1

\* an edge attribute function and a missing edge cost function, as tables
EdgeAttrFn == [x \in Channels \X Channels |-> AttrCost(x[1], x[2])]
MissingEdgeCostFn == [e \in TNodes \X TNodes |-> MissingEdgeCost]

\* the attributes a caller assigns to a problem before it calls edgewise:
\* edge_attr_fn = None, or a function as edge_attr_fn with or without a
\* missing_edge_cost_fn
AttributesGiven ==
    {[edge_attr_fn |-> None],
     [edge_attr_fn |-> EdgeAttrFn, missing_edge_cost_fn |-> MissingEdgeCostFn],
     [edge_attr_fn |-> EdgeAttrFn]}

\* smp.edge_attr_fn = ... (and smp.missing_edge_cost_fn = ...)
with_attributes(p, given) == given @@ p

\* the candidate matrices the problems are built with: every pair (None),
\* or every pair but those of one template node
EdgewiseCandidates ==
    {None} \cup {[i \in TNodes |-> [j \in WNodes |-> i # x]] : x \in TNodes}

\* the changed_cands vectors: no node, one node, every node
ChangedCands ==
    {[i \in TNodes |-> i \in S] : S \in {{}, TNodes} \cup {{x} : x \in TNodes}}

\* the templates the bound is computed for: the template of the fixtures
\* (b -> a on c1, c -> b on c2), a cycle on one channel, a template with a
\* double edge, an edge back on the other channel and a third node, and a
\* single edge beside a node without neighbours
EdgewiseTmplts ==
    {AdjOf(TNodes, <<<<1, 1, 0>>, <<2, 2, 1>>>>),
     AdjOf(TNodes, <<<<1, 0, 1>>, <<1, 1, 2>>, <<1, 2, 0>>>>),
     AdjOf(TNodes, <<<<1, 0, 1>>, <<1, 0, 1>>, <<2, 1, 0>>, <<1, 1, 2>>>>),
     AdjOf(TNodes, <<<<1, 0, 1>>>>)}

EdgewiseInit ==
    /\ pc = "graphs"
    /\ \E t \in EdgewiseTmplts : \E w \in WorldGraphs :
       \E c \in EdgewiseCandidates :
          args = [tmplt |-> t, world |-> w, candidates |-> c, changed_cands |-> None]
    /\ smp = None
    /\ old_candidates = None
    /\ rounds = 0
    /\ result = None

\* smp = MatchingProblem(tmplt, world, fixed_costs=..., global_cost_threshold=...)
\* followed by the global bound
EdgewiseConstruct ==
    /\ pc = "graphs"
    /\ \E h \in {0, 1} :
          smp' = from_local_bounds(
                    MatchingProblem(args.tmplt, args.world,
                                    IF args.candidates = None THEN None
                                    ELSE fixed_costs_of(args.candidates), h))
    /\ pc' = "built"
    /\ UNCHANGED <<args, old_candidates, rounds, result>>

\* the caller assigns smp.edge_attr_fn
SupplyEdgeAttrFn ==
    /\ pc = "built"
    /\ \E given \in AttributesGiven : smp' = with_attributes(smp, given)
    /\ pc' = "supplied"
    /\ UNCHANGED <<args, old_candidates, rounds, result>>

\* edgewise(smp)
EdgewiseAll ==
    /\ pc \in {"built", "supplied"}
    /\ result' = edgewise_local_costs(smp, None)
    /\ smp' = edgewise(smp, None).smp
    /\ old_candidates' = candidates(smp)
    /\ rounds' = rounds + 1
    /\ pc' = "called"
    /\ UNCHANGED args

\* global_cost_bound.from_local_bounds(smp), after a call that returned
EdgewiseGlobalBound ==
    /\ pc \in {"called", "recalled"}
    /\ ~result.raised
    /\ smp' = from_local_bounds(smp)
    /\ pc' = IF pc = "called" THEN "rebounded" ELSE "finished"
    /\ UNCHANGED <<args, old_candidates, rounds, result>>

\* edgewise(smp, changed_cands)
EdgewiseChanged ==
    /\ pc \in {"supplied", "rebounded"}
    /\ \E ch \in ChangedCands :
          /\ result' = edgewise_local_costs(smp, ch)
          /\ smp' = edgewise(smp, ch).smp
          /\ args' = [args EXCEPT !.changed_cands = ch]
    /\ old_candidates' = candidates(smp)
    /\ rounds' = rounds + 1
    /\ pc' = "recalled"

EdgewiseNext ==
    \/ EdgewiseConstruct
    \/ SupplyEdgeAttrFn
    \/ EdgewiseAll
    \/ EdgewiseGlobalBound
    \/ EdgewiseChanged

EdgewiseSpec == EdgewiseInit /\ [][EdgewiseNext]_vars

\* an edgewise call has just returned or raised
AfterEdgewise == pc \in {"called", "recalled"}

\* the problem has been built
Built == pc # "graphs"

\* C2, as stated: after any number of rounds of edgewise bound and global
\* bound, the true total cost of every complete injective assignment is at
\* least the local cost and the global cost recorded for each of its pairs
C2_EveryAssignmentBounded ==
    Built =>
        \A A \in Assignments : \A i \in TNodes :
            /\ smp.local_costs[i][A[i]] <= total_cost(smp, A)
            /\ smp.global_costs[i][A[i]] <= total_cost(smp, A)

\* C2, amended: after any number of rounds, the true total cost of every
\* complete injective assignment whose total cost does not exceed the global
\* cost threshold is at least the local cost and the global cost recorded
\* for each of its pairs
C2_MatchesBounded ==
    Built =>
        \A A \in Assignments :
            total_cost(smp, A) <= smp.global_cost_threshold =>
                \A i \in TNodes :
                    /\ smp.local_costs[i][A[i]] <= total_cost(smp, A)
                    /\ smp.global_costs[i][A[i]] <= total_cost(smp, A)

\* two rounds have run, they raised the bound of a pair of an assignment
\* within the threshold, and ruled out a pair of another assignment
C2_Witness ==
    /\ pc = "finished"
    /\ rounds = 2
    /\ \E A \in Assignments :
          /\ total_cost(smp, A) <= smp.global_cost_threshold
          /\ \E i \in TNodes : smp.local_costs[i][A[i]] > 0
    /\ \E i \in TNodes : \E j \in WNodes :
          smp.fixed_costs[i][j] = 0 /\ ~candidates(smp)[i][j]

\* C4: a round of edgewise bound and global bound only removes candidates:
\* a pair that is no candidate before a step of a round is none after it
C4_CandidatesOnlyShrink ==
    [][Built =>
        \A i \in TNodes : \A j \in WNodes :
            candidates(smp')[i][j] => candidates(smp)[i][j]]_vars

\* a round after the first has removed a candidate
C4_Witness ==
    /\ pc = "finished"
    /\ rounds = 2
    /\ candidates(smp) # old_candidates
    /\ \E i \in TNodes : \E j \in WNodes : ~old_candidates[i][j]

\* the pairs the call had to evaluate and of which an endpoint had no
\* candidate when it was made
PairsWithoutCandidates ==
    {e \in required_pairs(smp, args.changed_cands) :
        no_candidates(old_candidates, e)}

\* the template without the edges between the nodes of the pairs S
without_pairs(tmplt, S) ==
    [c \in Channels |-> [i \in TNodes |-> [j \in TNodes |->
        IF <<i, j>> \in S \/ <<j, i>> \in S THEN 0 ELSE tmplt[c][i][j]]]]

\* C11: the edgewise bound raises a fatal error when a template node of a
\* pair it must evaluate has no candidate
C11_RaisesWithoutCandidates ==
    AfterEdgewise /\ PairsWithoutCandidates # {} => result.raised

\* the pairs of neighbouring template nodes of which no node is marked in
\* the changed_cands vector ch
UnmarkedPairs(tmplt, ch) ==
    {e \in nbr_idx_pairs(tmplt) : ~ch[e[1]] /\ ~ch[e[2]]}

\* the template nodes none of whose pairs has a marked node
UntouchedNodes(tmplt, ch) ==
    {u \in TNodes :
        \A e \in nbr_idx_pairs(tmplt) : u \in {e[1], e[2]} => ~ch[e[1]] /\ ~ch[e[2]]}

\* C13: a call of edgewise with a changed_cands vector recomputes the pairs
\* of neighbouring template nodes of which a node is marked and no other
\* pair (it does what a call does on the template that has those pairs
\* only), and it leaves the local cost row of every template node none of
\* whose pairs was recomputed as it was
C13_OnlyChangedPairsRecomputed ==
    [][pc' = "recalled" =>
        LET ch == args'.changed_cands
            marked == [smp EXCEPT !.tmplt =
                          without_pairs(smp.tmplt, UnmarkedPairs(smp.tmplt, ch))]
        IN  /\ result' = edgewise_local_costs(marked, None)
            /\ \A u \in UntouchedNodes(smp.tmplt, ch) :
                  smp'.local_costs[u] = smp.local_costs[u]]_vars

\* a call with one node marked has computed a bound that is not zero and
\* left alone a row that is not zero, of a node with a neighbour
C13_Witness ==
    /\ pc = "recalled"
    /\ ~result.raised
    /\ \E x \in TNodes : args.changed_cands = [i \in TNodes |-> i = x]
    /\ \E i \in TNodes : \E j \in WNodes : result.new_local_costs[i][j] > 0
    /\ \E u \in UntouchedNodes(smp.tmplt, args.changed_cands) :
          /\ \E e \in nbr_idx_pairs(smp.tmplt) : u \in {e[1], e[2]}
          /\ \E j \in WNodes : smp.local_costs[u][j] > 0

\* lines 52-57: the call skipped no pair of neighbouring template nodes as
\* unchanged: it was made without changed_cands, or with a node of every
\* pair marked
EveryPairRequired ==
    required_pairs(smp, args.changed_cands) = nbr_idx_pairs(smp.tmplt)

\* the template neighbours of u
Neighbours(tmplt, u) ==
    {v \in TNodes \ {u} :
        \E c \in Channels : tmplt[c][u][v] > 0 \/ tmplt[c][v][u] > 0}

\* the number of template edges between u and v, over all channels and both
\* directions
EdgesBetween(tmplt, u, v) ==
    SumOver([c \in Channels |-> tmplt[c][u][v] + tmplt[c][v][u]], Channels)

\* the number of template edges between u and v that the world has between
\* a and b: per channel and direction the smaller of the two edge counts
Supported(tmplt, world, u, v, a, b) ==
    SumOver([c \in Channels |->
                Min(world[c][a][b], tmplt[c][u][v])
                + Min(world[c][b][a], tmplt[c][v][u])], Channels)

\* the missing edges of template node u at world node a: over the
\* neighbours vs of u, the edges between u and v less the most of them that
\* a candidate of v supports (none, where v has no candidate)
MissingAt(tmplt, world, cands, vs, u, a) ==
    SumOver([v \in vs |->
                EdgesBetween(tmplt, u, v)
                - MaxOver([b \in WNodes |->
                              IF cands[v][b]
                              THEN Supported(tmplt, world, u, v, a, b) ELSE 0],
                          WNodes)], vs)

\* C16: edgewise_local_costs without an edge attribute function gives, at
\* every candidate u' of every template node u, the sum over all template
\* neighbours v of u of the edges between u and v less the most that a
\* candidate of v supports, and 0 at every non-candidate
C16_SumOverNeighbours ==
    /\ AfterEdgewise
    /\ EveryPairRequired
    /\ "edge_attr_fn" \notin DOMAIN smp \/ smp.edge_attr_fn = None
    =>
        /\ ~result.raised
        /\ \A u \in TNodes : \A a \in WNodes :
              result.new_local_costs[u][a] =
                  IF old_candidates[u][a]
                  THEN MissingAt(smp.tmplt, smp.world, old_candidates,
                                 Neighbours(smp.tmplt, u), u, a)
                  ELSE 0

\* C17: with an edge attribute function edgewise_local_costs completes and
\* returns the sum over the template edges (s, d) of a contribution to row
\* s at a candidate s' and to row d at a candidate d': the least of the
\* missing edge cost and of the attribute costs of the world edges from a
\* candidate of s to a candidate of d at that world node
C17_AttributeCostsReturned ==
    /\ AfterEdgewise
    /\ "edge_attr_fn" \in DOMAIN smp
    /\ smp.edge_attr_fn # None
    =>
    LET \* the world edges (channel, other end) at world node a that stand
        \* for the template edge e = (channel, s, d): from a to a candidate
        \* of d (forward), or from a candidate of s to a
        fits(e, a, forward) ==
            {x \in Channels \X WNodes :
                IF forward
                THEN old_candidates[e[3]][x[2]] /\ smp.world[x[1]][a][x[2]] > 0
                ELSE old_candidates[e[2]][x[2]] /\ smp.world[x[1]][x[2]][a] > 0}
        \* the least of the missing edge cost and of their attribute costs
        least(e, a, forward) ==
            IF \E x \in fits(e, a, forward) : AttrCost(e[1], x[1]) = 0 THEN 0
            ELSE IF fits(e, a, forward) # {} THEN 1
            ELSE MissingEdgeCost
    IN  /\ ~result.raised
        /\ \A u \in TNodes : \A a \in WNodes :
              old_candidates[u][a] =>
                  result.new_local_costs[u][a] =
                      SumOver([e \in Channels \X TNodes \X TNodes |->
                                  smp.tmplt[e[1]][e[2]][e[3]] *
                                  ((IF e[2] = u THEN least(e, a, TRUE) ELSE 0)
                                   + (IF e[3] = u THEN least(e, a, FALSE)
                                      ELSE 0))],
                              attr_edges_evaluated(smp, args.changed_cands))

---------------------------------------------------------------------------
(* MatchingProblem.__init__ called with graphs that may have self-loops and *)
(* with cost arrays of any shape, and reduce_world called on the result.    *)

\* bound on the self-loops added to a graph
MaxLoops == 1

\* ndarray.shape of a two-dimensional array
shape(a) == <<Cardinality(DOMAIN a), Cardinality(DOMAIN a[0])>>

\* np.zeros((r, c))
zeros_of(r, c) == [i \in 0 .. (r - 1) |-> [j \in 0 .. (c - 1) |-> 0]]

\* whether numpy can add an array of shape sb into an array of shape sa in
\* place: every dimension of sb is that of sa or 1
broadcasts_into(sb, sa) == \A d \in 1 .. 2 : sb[d] = sa[d] \/ sb[d] = 1

\* a += b for an a that b broadcasts into
inplace_add(a, b) ==
    [i \in DOMAIN a |-> [j \in DOMAIN a[i] |->
        Plus(a[i][j], b[IF shape(b)[1] = 1 THEN 0 ELSE i]
                       [IF shape(b)[2] = 1 THEN 0 ELSE j])]]

\* line 99: the self-loops are folded and stripped if the template has any
folds_loops(tmplt) == has_loops(tmplt)

\* MatchingProblem.__init__ with its three cost arrays (None: zeros of the
\* shape of the problem): whether it raised, the problem it built, and the
\* entries the caller's fixed_costs has after the call: line 100 adds the
\* disagreements of the self-loops into the array passed, of which the
\* problem then keeps a view
construct(tmplt, world, fixed_costs, local_costs, global_costs) ==
    LET fc0 == IF fixed_costs = None THEN zeros_of(NT, NW) ELSE fixed_costs
        lc0 == IF local_costs = None THEN zeros_of(NT, NW) ELSE local_costs
        gc0 == IF global_costs = None THEN zeros_of(NT, NW) ELSE global_costs
        loops == folds_loops(tmplt)
        fd == feature_disagreements(self_edges(tmplt), self_edges(world))
    IN  IF loops /\ ~broadcasts_into(shape(fd), shape(fc0))
        THEN [raised |-> TRUE, smp |-> None, fixed_costs |-> fixed_costs]
        ELSE [raised |-> FALSE,
              fixed_costs |-> IF fixed_costs = None THEN None
                              ELSE IF loops THEN inplace_add(fc0, fd) ELSE fc0,
              smp |-> [tmplt |-> IF loops THEN loopless_subgraph(tmplt) ELSE tmplt,
                       world |-> IF loops THEN loopless_subgraph(world) ELSE world,
                       fixed_costs |-> IF loops THEN inplace_add(fc0, fd) ELSE fc0,
                       local_costs |-> lc0,
                       global_costs |-> gc0,
                       shared |-> own_buffers,
                       local_cost_threshold |-> 0,
                       global_cost_threshold |-> 0]]

\* the self-loops of at most K edges over nodes N, each multiset once
LoopLists(N, K) ==
    UNION {{el \in [1 .. k -> {e \in Channels \X N \X N : e[2] = e[3]}] :
               \A p \in 1 .. (k - 1) : SlotRank(N, el[p]) <= SlotRank(N, el[p + 1])}
           : k \in 0 .. K}

\* the graphs of the fixtures with self-loops added
LoopedGraphs(N, bases) ==
    {AdjOf(N, base \o el) : base \in bases, el \in LoopLists(N, MaxLoops)}

\* the edge lists of the fixtures: the template's and the noisy world's
FixtureEdgeLists == {<<<<1, 1, 0>>, <<2, 2, 1>>>>, <<<<1, 1, 0>>>>}

\* the shapes of the arrays passed: that of the problem, a row short, a
\* column long
Shapes == {<<NT, NW>>, <<NT - 1, NW>>, <<NT, NW + 1>>}

\* the cost arrays passed: none, or one of them as zeros of some shape, or
\* global costs that are infinite in one column or in all
CostArguments ==
    {[fixed_costs |-> None, local_costs |-> None, global_costs |-> None]}
    \cup {[fixed_costs |-> zeros_of(sh[1], sh[2]), local_costs |-> None,
           global_costs |-> None] : sh \in Shapes}
    \cup {[fixed_costs |-> None, local_costs |-> zeros_of(sh[1], sh[2]),
           global_costs |-> None] : sh \in Shapes}
    \cup {[fixed_costs |-> None, local_costs |-> None,
           global_costs |-> zeros_of(sh[1], sh[2])] : sh \in Shapes}
    \cup {[fixed_costs |-> None, local_costs |-> None,
           global_costs |-> [i \in TNodes |-> [j \in WNodes |->
                                IF j \in S THEN Inf ELSE 0]]] : S \in {{0}, WNodes}}

\* Graph.node_subgraph: the graph on the nodes keep
node_subgraph(g, keep) ==
    [c \in Channels |-> [i \in keep |-> [j \in keep |-> g[c][i][j]]]]

\* a[:, keep]: the columns keep of an array, in ascending order, as the
\* columns 0, 1, ... of a new array
columns(a, keep) ==
    LET nth(k) == CHOOSE x \in keep : Cardinality({y \in keep : y < x}) = k
    IN  [i \in DOMAIN a |-> [j \in 0 .. (Cardinality(keep) - 1) |-> a[i][nth(j)]]]

\* arr[:] = value through MonotoneArray.__setitem__ for a value that
\* broadcasts into arr: every entry keeps the larger of its old value and
\* the value broadcast to it
monotone_broadcast(arr, value) ==
    [i \in DOMAIN arr |-> [j \in DOMAIN arr[i] |->
        Max(arr[i][j], value[IF shape(value)[1] = 1 THEN 0 ELSE i]
                            [IF shape(value)[2] = 1 THEN 0 ELSE j])]]

\* ndarray.sum() of a cost array
array_sum(a) ==
    LET entries == (DOMAIN a) \X (DOMAIN a[0])
    IN  SumOver([e \in entries |-> a[e[1]][e[2]]], entries)

\* MatchingProblem.reduce_world: whether it raised, with which error, what it
\* returned and the problem it leaves.  Line 307 reads
\* self.structural_costs, which a problem has only if something outside the
\* class has set it.  With it, and a column that is not all infinite, the
\* world is replaced (line 310) and structural_costs is rebound to its
\* columns (line 313); line 314 assigns the columns of fixed_costs to
\* fixed_costs through the setter, which raises unless they broadcast into
\* the array; line 315 stores the sum and line 316 calls
\* self._compute_total_costs, which the class does not define
reduce_world(p) ==
    IF "structural_costs" \notin DOMAIN p
    THEN [raised |-> TRUE, error |-> "AttributeError", returned |-> None,
          smp |-> p]
    ELSE LET is_cands == {j \in DOMAIN p.structural_costs[0] :
                             \E i \in DOMAIN p.structural_costs :
                                 p.structural_costs[i][j] # Inf}
             p1 == [p EXCEPT !.world = node_subgraph(p.world, is_cands),
                             !.structural_costs = columns(@, is_cands)]
             value == columns(p.fixed_costs, is_cands)
         IN  IF is_cands = {}
             THEN [raised |-> FALSE, error |-> "", returned |-> FALSE, smp |-> p]
             ELSE IF ~broadcasts_into(shape(value), shape(p.fixed_costs))
             THEN [raised |-> TRUE, error |-> "ValueError", returned |-> None,
                   smp |-> p1]
             ELSE [raised |-> TRUE, error |-> "AttributeError",
                   returned |-> None,
                   smp |-> [_structural_cost_sum |->
                               array_sum(p1.structural_costs)]
                           @@ written(p1, "fixed_costs",
                                      monotone_broadcast(p1.fixed_costs,
                                                         value))]

\* the arrays assigned to smp.structural_costs from outside the class: no
\* column infinite, the first, all but the second, all but the last, all
StructuralCosts ==
    {[i \in TNodes |-> [j \in WNodes |->
        IF j \in S THEN Inf ELSE IF <<i, j>> = <<0, NW - 1>> THEN c ELSE 0]] :
     S \in {{}, {0}, WNodes \ {1}, WNodes \ {NW - 1}, WNodes},
     c \in 0 .. MaxCost}

ConstructInit ==
    /\ pc = "arguments"
    /\ \E t \in LoopedGraphs(TNodes, FixtureEdgeLists) :
       \E w \in LoopedGraphs(WNodes, FixtureEdgeLists) :
       \E a \in CostArguments :
          args = [tmplt |-> t, world |-> w, fixed_costs |-> a.fixed_costs,
                  local_costs |-> a.local_costs, global_costs |-> a.global_costs]
    /\ smp = None
    /\ old_candidates = None
    /\ rounds = 0
    /\ result = None

\* smp = MatchingProblem(tmplt, world, fixed_costs, local_costs, global_costs);
\* args keeps the arrays of the caller, with the entries they have now
Construct ==
    /\ pc = "arguments"
    /\ LET made == construct(args.tmplt, args.world, args.fixed_costs,
                             args.local_costs, args.global_costs)
       IN  /\ smp' = made.smp
           /\ result' = [raised |-> made.raised]
           /\ args' = [args EXCEPT !.fixed_costs = made.fixed_costs]
    /\ pc' = "constructed"
    /\ UNCHANGED <<old_candidates, rounds>>

\* smp.structural_costs = ..., assigned by a caller
SetStructuralCosts ==
    /\ pc = "constructed"
    /\ ~result.raised
    /\ "structural_costs" \notin DOMAIN smp
    /\ \E sc \in StructuralCosts : smp' = [structural_costs |-> sc] @@ smp
    /\ UNCHANGED <<pc, args, old_candidates, rounds, result>>

\* smp.reduce_world(); the fixed_costs passed to the constructor, if any,
\* is the buffer smp.fixed_costs is a view of, and shows what line 314 wrote
ReduceWorld ==
    /\ pc = "constructed"
    /\ ~result.raised
    /\ LET call == reduce_world(smp)
       IN  /\ smp' = call.smp
           /\ result' = [raised |-> call.raised, error |-> call.error,
                         returned |-> call.returned]
           /\ args' = [args EXCEPT !.fixed_costs =
                          IF @ = None THEN None ELSE call.smp.fixed_costs]
    /\ pc' = "reduced"
    /\ UNCHANGED <<old_candidates, rounds>>

ConstructNext == Construct \/ SetStructuralCosts \/ ReduceWorld

ConstructSpec == ConstructInit /\ [][ConstructNext]_vars

\* the arrays passed to the constructor that do not have the shape of the
\* problem
Misshaped ==
    {a \in {args.fixed_costs, args.local_costs, args.global_costs} :
        a # None /\ shape(a) # <<NT, NW>>}

\* C12: constructing a MatchingProblem with a cost array whose shape is not
\* (number of template nodes, number of world nodes) fails, and no problem
\* with such an array is ever created
C12_MisshapedFails ==
    pc = "constructed" =>
        /\ Misshaped # {} => result.raised
        /\ ~result.raised =>
              /\ shape(smp.fixed_costs) = <<NT, NW>>
              /\ shape(smp.local_costs) = <<NT, NW>>
              /\ shape(smp.global_costs) = <<NT, NW>>

\* C14: after a MatchingProblem is constructed neither its template nor
\* its world has a self-loop, whatever the graphs passed, and the self-loops
\* of the template that the world node lacks have been added to fixed_costs
C14_LoopsFoldedAndStripped ==
    pc = "constructed" /\ ~result.raised =>
        /\ ~has_loops(smp.tmplt)
        /\ ~has_loops(smp.world)
        /\ smp.tmplt = loopless_subgraph(args.tmplt)
        /\ smp.world = loopless_subgraph(args.world)
        /\ args.fixed_costs = None =>
              smp.fixed_costs =
                  feature_disagreements(self_edges(args.tmplt),
                                        self_edges(args.world))

\* C15: reduce_world restricts the world and the columns of the cost arrays
\* to the world nodes that are a candidate of some template node and returns
\* True, or returns False and leaves the problem as it is when there is no
\* such world node
C15_ReduceWorldRestricts ==
    [][pc = "constructed" /\ pc' = "reduced" /\ Misshaped = {} =>
        LET before == smp
            keep == {j \in WNodes : \E i \in TNodes : candidates(before)[i][j]}
        IN  /\ ~result'.raised
            /\ IF keep = {}
               THEN /\ result'.returned = FALSE
                    /\ smp'.world = before.world
                    /\ smp'.fixed_costs = before.fixed_costs
                    /\ smp'.local_costs = before.local_costs
                    /\ smp'.global_costs = before.global_costs
               ELSE /\ result'.returned = TRUE
                    /\ smp'.world = node_subgraph(before.world, keep)
                    /\ smp'.fixed_costs = columns(before.fixed_costs, keep)
                    /\ smp'.local_costs = columns(before.local_costs, keep)
                    /\ smp'.global_costs = columns(before.global_costs, keep)]_vars

====
